---------------------------- MODULE Spec2Model ----------------------------
(***************************************************************************)
(* Constraint-inheritance emulation of edb/pgsql/deltadbops.py: the        *)
(* rendering of a schema constraint into physical constraints, the trigger *)
(* emulation of inheritance, and the Create / Rename / Alter / Drop        *)
(* command groups, generated into a block and executed on a backend.       *)
(***************************************************************************)
EXTENDS Integers, Sequences, FiniteSets, TLC

(* ------------------------------ bounds -------------------------------- *)

\* Largest number of expression fragments of one constraint.
MaxFrags == 2

(* ------------------------- descriptors (inputs) ------------------------ *)

\* constraint.id of the schema constraints the model draws from.
Ids == {"a", "b"}

Scopes == {"row", "table"}

\* 'check' and 'unique' are the types the code names; "other" stands for any
\* further type value.
Types == {"check", "unique", "other"}

\* The subject table of every command group.
TableName == "t"

\* exprdata entries: one trivial (bare column references) and one computed,
\* each of two chunks.
TrivialFrag ==
    [plain |-> "(a, b)", old |-> "(OLD.a, OLD.b)", new |-> "(NEW.a, NEW.b)",
     plain_chunks |-> <<"a", "b">>, is_trivial |-> TRUE]

ComplexFrag ==
    [plain |-> "(lower(c), d)", old |-> "(lower(OLD.c), OLD.d)",
     new |-> "(lower(NEW.c), NEW.d)",
     plain_chunks |-> <<"lower(c)", "d">>, is_trivial |-> FALSE]

FragPool == {TrivialFrag, ComplexFrag}

FragSeqs == UNION {[1..n -> FragPool] : n \in 1..MaxFrags}

\* A SchemaConstraintTableConstraint: constraint id, delegated flag, scope,
\* type and exprdata.
Descriptors ==
    [id : Ids, delegated : BOOLEAN, scope : Scopes, type : Types,
     frags : FragSeqs]

\* No descriptor (no constraint in the schema; no new_constraint).
NoDesc ==
    [id |-> "", delegated |-> TRUE, scope |-> "none", type |-> "none",
     frags |-> <<>>]

(* ------------------------------ helpers ------------------------------- *)

RECURSIVE Join(_, _)
\* sep.join(seq) of Python, on a sequence of strings.
Join(seq, sep) ==
    IF Len(seq) = 0 THEN ""
    ELSE IF Len(seq) = 1 THEN seq[1]
    ELSE seq[1] \o sep \o Join(Tail(seq), sep)

\* common.edgedb_name_to_pg_name: an opaque, injective name mangling.
edgedb_name_to_pg_name(name) == "pg:" \o name

\* common.quote_ident: the identifier as it is written in a statement.
quote_ident(name) == "\"" \o name \o "\""

\* common.get_backend_name(schema, constraint, catenate=False, aspect=...).
get_backend_name(d, aspect) == "edgedb." \o d.id \o "_" \o aspect


(* -------------------- ConstraintCommon (lines 43-70) ------------------- *)

\* Fault: the name does not depend on the constraint id.
raw_constraint_name_SharedName(d) == "constraint" \o ";" \o "schemaconstr"

\* ConstraintCommon.raw_constraint_name
raw_constraint_name(d) == d.id \o ";" \o "schemaconstr"

\* ConstraintCommon.constraint_name(quote)
constraint_name(d, quote) ==
    LET name == edgedb_name_to_pg_name(raw_constraint_name(d))
    IN  IF quote THEN quote_ident(name) ELSE name

(* ------------- SchemaConstraintTableConstraint (lines 95-217) ---------- *)

\* Whether constraint_code raises ValueError('unexpected constraint type').
constraint_code_raises(d) == d.scope # "row" /\ d.type # "unique"

\* Fault: is_trivial is not tested, every fragment becomes a UNIQUE.
unique_expr_AlwaysUnique(frag) ==
    "UNIQUE (" \o Join(frag.plain_chunks, ", ") \o ")"

\* The text of one fragment of a table-wide unique constraint.
unique_expr(frag) ==
    IF frag.is_trivial
    THEN "UNIQUE (" \o Join(frag.plain_chunks, ", ") \o ")"
    ELSE "EXCLUDE ("
         \o Join([i \in 1..Len(frag.plain_chunks) |->
                    frag.plain_chunks[i] \o " WITH ="], ", ")
         \o ")"

\* Fault: a Row-scope constraint checks its first fragment only.
constraint_code_FirstFragmentOnly(d) ==
    IF d.scope = "row"
    THEN [list |-> FALSE,
          exprs |-> << "CHECK (" \o d.frags[1].plain \o ")" >>]
    ELSE [list |-> TRUE,
          exprs |-> [i \in 1..Len(d.frags) |-> unique_expr(d.frags[i])]]

\* constraint_code where it does not raise: [list |-> whether the result is
\* a Python list, exprs |-> the text (one element when it is a str)].
constraint_code(d) ==
    IF d.scope = "row"
    THEN [list |-> FALSE,
          exprs |-> << "CHECK ("
                       \o (IF Len(d.frags) = 1
                           THEN d.frags[1].plain
                           ELSE "("
                                \o Join([i \in 1..Len(d.frags) |->
                                           d.frags[i].plain], ") AND (")
                                \o ")")
                       \o ")" >>]
    ELSE [list |-> TRUE,
          exprs |-> [i \in 1..Len(d.frags) |-> unique_expr(d.frags[i])]]

\* Fault: the pieces are numbered from 1.
numbered_constraint_name_OneBased(d, i, quote) ==
    LET name == edgedb_name_to_pg_name(
                    raw_constraint_name(d) \o "#" \o ToString(i + 1))
    IN  IF quote THEN quote_ident(name) ELSE name

\* numbered_constraint_name(i, quote); i counts from 0 as enumerate() does.
numbered_constraint_name(d, i, quote) ==
    LET name == edgedb_name_to_pg_name(
                    raw_constraint_name(d) \o "#" \o ToString(i))
    IN  IF quote THEN quote_ident(name) ELSE name

\* get_trigger_procname
get_trigger_procname(d) == get_backend_name(d, "trigproc")

\* Fault: the per-fragment comparisons are joined with AND.
get_trigger_condition_AllChanged(d) ==
    LET chunks == [i \in 1..Len(d.frags) |->
                     d.frags[i].old \o " IS DISTINCT FROM " \o d.frags[i].new]
    IN  IF Len(chunks) = 1 THEN chunks[1]
        ELSE "(" \o Join(chunks, ") AND (") \o ")"

\* get_trigger_condition
get_trigger_condition(d) ==
    LET chunks == [i \in 1..Len(d.frags) |->
                     d.frags[i].old \o " IS DISTINCT FROM " \o d.frags[i].new]
    IN  IF Len(chunks) = 1 THEN chunks[1]
        ELSE "(" \o Join(chunks, ") OR (") \o ")"

\* The values a fragment's expression takes on a row.
FragVals == {"NULL", "x", "y"}

\* SQL's  u IS DISTINCT FROM v : a comparison that treats NULL as a value.
IsDistinctFrom(u, v) ==
    IF u = "NULL" /\ v = "NULL" THEN FALSE
    ELSE IF u = "NULL" \/ v = "NULL" THEN TRUE
    ELSE u # v

\* The truth of the text get_trigger_condition builds, on an update whose
\* i-th fragment evaluates to oldvals[i] on OLD and to newvals[i] on NEW: one
\* comparison per fragment, alone or joined by OR.
trigger_condition_holds(d, oldvals, newvals) ==
    LET chunks == [i \in 1..Len(d.frags) |->
                     IsDistinctFrom(oldvals[i], newvals[i])]
    IN  IF Len(chunks) = 1 THEN chunks[1]
        ELSE \E i \in 1..Len(chunks) : chunks[i]

\* get_trigger_proc_text: one duplicate check per fragment in one body.
get_trigger_proc_text(d) ==
    LET constr_name == constraint_name(d, TRUE)
        raw_constr_name == constraint_name(d, FALSE)
        errmsg == "duplicate key value violates unique constraint "
                  \o constr_name
        chunk(f) ==
            "PERFORM TRUE FROM " \o TableName
            \o " WHERE " \o f.plain \o " = " \o f.new \o ";"
            \o " IF FOUND THEN RAISE unique_violation USING"
            \o " CONSTRAINT = '" \o raw_constr_name \o "',"
            \o " MESSAGE = '" \o errmsg \o "',"
            \o " DETAIL = 'Key (" \o f.plain \o ") already exists.';"
            \o " END IF;"
    IN  "BEGIN\n"
        \o Join([i \in 1..Len(d.frags) |-> chunk(d.frags[i])], "\n\n")
        \o "\nRETURN NEW;\nEND;"

\* is_multiconstraint
is_multiconstraint(d) == d.scope # "row" /\ Len(d.frags) > 1

\* Fault: the test of the type is inverted.
is_natively_inherited_Inverted(d) == d.type # "check"

\* is_natively_inherited
is_natively_inherited(d) == d.type = "check"


(* ----------------------- commands and statements ----------------------- *)

\* A command object held in a group's self.commands.  c is its class, name
\* and arg its own fields, d / nd the descriptors it holds, sub the
\* self.commands of a nested group.
Cmd(c, name, arg, extra, d, nd) ==
    [c |-> c, name |-> name, arg |-> arg, extra |-> extra,
     d |-> d, nd |-> nd, sub |-> <<>>]

\* One object named by a statement.
Item(name, arg, extra) == [name |-> name, arg |-> arg, extra |-> extra]

\* A statement of the output block: op is the kind of statement and items
\* the objects it names (several for one ALTER TABLE with several clauses).
Stmt(op, items) == [op |-> op, items |-> items]

(* ------------ AlterTableAddMultiConstraint (lines 239-278) ------------- *)

\* Fault: only the first piece of a multi-constraint is added.
AddMultiConstraint_code_FirstPieceOnly(d) ==
    LET res == constraint_code(d)
    IN  IF res.list /\ Len(res.exprs) > 1
        THEN << Item(numbered_constraint_name(d, 0, TRUE), res.exprs[1], "") >>
        ELSE << Item(constraint_name(d, TRUE), res.exprs[1], "") >>

\* AlterTableAddMultiConstraint.code: the ADD CONSTRAINT clauses.
AddMultiConstraint_code(d) ==
    LET res == constraint_code(d)
    IN  IF res.list /\ Len(res.exprs) > 1
        THEN [i \in 1..Len(res.exprs) |->
                Item(numbered_constraint_name(d, i - 1, TRUE),
                     res.exprs[i], "")]
        ELSE << Item(constraint_name(d, TRUE), res.exprs[1], "") >>

\* MultiConstraintItem.get_id: the quoted numbered name of piece index.
MultiConstraintItem_get_id(d, index) ==
    quote_ident(edgedb_name_to_pg_name(
        raw_constraint_name(d) \o "#" \o ToString(index)))

\* generate_extra of the add and of the rename command: one Comment per
\* physical piece of d, each carrying d's raw constraint name.
MultiConstraint_generate_extra(d) ==
    LET res == constraint_code(d)
        constr_name == raw_constraint_name(d)
    IN  IF res.list /\ Len(res.exprs) > 1
        THEN [i \in 1..Len(res.exprs) |->
                Stmt("comment",
                     << Item(MultiConstraintItem_get_id(d, i - 1),
                             constr_name, "") >>)]
        ELSE << Stmt("comment",
                     << Item(constraint_name(d, TRUE), constr_name, "") >>) >>

(* ----------- AlterTableRenameMultiConstraint (lines 281-340) ----------- *)

\* Fault: only the first numbered piece is renamed.
RenameMultiConstraint_commands_FirstPieceOnly(c, nc) ==
    LET res == constraint_code(c)
    IN  IF res.list /\ Len(res.exprs) > 1
        THEN << Cmd("AlterTableRenameConstraintSimple",
                    numbered_constraint_name(c, 0, FALSE),
                    numbered_constraint_name(nc, 0, FALSE),
                    "", NoDesc, NoDesc) >>
        ELSE << Cmd("AlterTableRenameConstraintSimple",
                    constraint_name(c, FALSE), constraint_name(nc, FALSE),
                    "", NoDesc, NoDesc) >>

\* The AlterTableRenameConstraintSimple commands generate() adds to the
\* group: one per numbered piece of the old descriptor, or one for the base
\* name.
RenameMultiConstraint_commands(c, nc) ==
    LET res == constraint_code(c)
    IN  IF res.list /\ Len(res.exprs) > 1
        THEN [i \in 1..Len(res.exprs) |->
                Cmd("AlterTableRenameConstraintSimple",
                    numbered_constraint_name(c, i - 1, FALSE),
                    numbered_constraint_name(nc, i - 1, FALSE),
                    "", NoDesc, NoDesc)]
        ELSE << Cmd("AlterTableRenameConstraintSimple",
                    constraint_name(c, FALSE), constraint_name(nc, FALSE),
                    "", NoDesc, NoDesc) >>

(* ----------- AlterTableDropMultiConstraint (lines 343-361) ------------- *)

\* Fault: every list result is dropped by numbered names, a one-element
\* list too.
DropMultiConstraint_code_AlwaysNumbered(d) ==
    LET res == constraint_code(d)
    IN  IF res.list
        THEN [i \in 1..Len(res.exprs) |->
                Item(numbered_constraint_name(d, i - 1, TRUE), "", "")]
        ELSE << Item(constraint_name(d, TRUE), "", "") >>

\* AlterTableDropMultiConstraint.code: the DROP CONSTRAINT clauses.
DropMultiConstraint_code(d) ==
    LET res == constraint_code(d)
    IN  IF res.list /\ Len(res.exprs) > 1
        THEN [i \in 1..Len(res.exprs) |->
                Item(numbered_constraint_name(d, i - 1, TRUE), "", "")]
        ELSE << Item(constraint_name(d, TRUE), "", "") >>


(* --------- AlterTableInheritableConstraintBase (lines 364-550) --------- *)

\* Fault: both triggers are created before either is disabled.
create_constr_trigger_DisableLast(constraint, proc_name) ==
    LET cname == raw_constraint_name(constraint)
        ins_trigger_name == edgedb_name_to_pg_name(cname \o "_instrigger")
        upd_trigger_name == edgedb_name_to_pg_name(cname \o "_updtrigger")
        condition == get_trigger_condition(constraint)
    IN  << Cmd("CreateTrigger", ins_trigger_name, proc_name, "insert",
               NoDesc, NoDesc),
           Cmd("CreateTrigger", upd_trigger_name, proc_name,
               "update WHEN (" \o condition \o ")", NoDesc, NoDesc),
           Cmd("DisableTrigger", ins_trigger_name, "", "self_only",
               NoDesc, NoDesc),
           Cmd("DisableTrigger", upd_trigger_name, "", "self_only",
               NoDesc, NoDesc) >>

\* create_constr_trigger: the insert trigger and the update trigger, each
\* created and then disabled on the declaring table only.
create_constr_trigger(constraint, proc_name) ==
    LET cname == raw_constraint_name(constraint)
        ins_trigger_name == edgedb_name_to_pg_name(cname \o "_instrigger")
        upd_trigger_name == edgedb_name_to_pg_name(cname \o "_updtrigger")
        condition == get_trigger_condition(constraint)
    IN  << Cmd("CreateTrigger", ins_trigger_name, proc_name, "insert",
               NoDesc, NoDesc),
           Cmd("DisableTrigger", ins_trigger_name, "", "self_only",
               NoDesc, NoDesc),
           Cmd("CreateTrigger", upd_trigger_name, proc_name,
               "update WHEN (" \o condition \o ")", NoDesc, NoDesc),
           Cmd("DisableTrigger", upd_trigger_name, "", "self_only",
               NoDesc, NoDesc) >>

\* rename_constr_trigger: both triggers renamed from the names of the old
\* descriptor to the names of the new one.
rename_constr_trigger(constraint, new_constr) ==
    LET cname == raw_constraint_name(constraint)
        ncname == raw_constraint_name(new_constr)
    IN  << Cmd("AlterTriggerRenameTo",
               edgedb_name_to_pg_name(cname \o "_instrigger"),
               edgedb_name_to_pg_name(ncname \o "_instrigger"),
               "", NoDesc, NoDesc),
           Cmd("AlterTriggerRenameTo",
               edgedb_name_to_pg_name(cname \o "_updtrigger"),
               edgedb_name_to_pg_name(ncname \o "_updtrigger"),
               "", NoDesc, NoDesc) >>

\* Fault: only the insert trigger is dropped.
drop_constr_trigger_InsertOnly(constraint) ==
    LET cname == raw_constraint_name(constraint)
    IN  << Cmd("DropTrigger",
               edgedb_name_to_pg_name(cname \o "_instrigger"), "", "",
               NoDesc, NoDesc) >>

\* drop_constr_trigger
drop_constr_trigger(constraint) ==
    LET cname == raw_constraint_name(constraint)
    IN  << Cmd("DropTrigger",
               edgedb_name_to_pg_name(cname \o "_instrigger"), "", "",
               NoDesc, NoDesc),
           Cmd("DropTrigger",
               edgedb_name_to_pg_name(cname \o "_updtrigger"), "", "",
               NoDesc, NoDesc) >>

\* create_constr_trigger_function
create_constr_trigger_function(constraint) ==
    << Cmd("CreateOrReplaceFunction", get_trigger_procname(constraint),
           get_trigger_proc_text(constraint), "", NoDesc, NoDesc) >>

\* drop_constr_trigger_function
drop_constr_trigger_function(proc_name) ==
    << Cmd("DropFunction", proc_name, "", "", NoDesc, NoDesc) >>

\* create_constraint: the commands it adds to self.commands.
create_constraint(constraint) ==
    << Cmd("AlterTableAdd", "", "", "", constraint, NoDesc) >>
    \o (IF ~is_natively_inherited(constraint)
        THEN create_constr_trigger_function(constraint)
             \o create_constr_trigger(constraint,
                                      get_trigger_procname(constraint))
        ELSE <<>>)

\* Fault: the function body is regenerated from the old descriptor.
rename_constraint_OldBody(old_constraint, new_constraint) ==
    << Cmd("AlterTableRenameMultiConstraint", "", "", "",
           old_constraint, new_constraint) >>
    \o (IF ~is_natively_inherited(old_constraint)
        THEN << Cmd("RenameFunction", get_trigger_procname(old_constraint),
                    get_trigger_procname(new_constraint), "",
                    NoDesc, NoDesc) >>
             \o create_constr_trigger_function(old_constraint)
             \o rename_constr_trigger(old_constraint, new_constraint)
        ELSE <<>>)

\* Fault: the trigger function is not renamed, only created under the new
\* name.
rename_constraint_NoFunctionRename(old_constraint, new_constraint) ==
    << Cmd("AlterTableRenameMultiConstraint", "", "", "",
           old_constraint, new_constraint) >>
    \o (IF ~is_natively_inherited(old_constraint)
        THEN create_constr_trigger_function(new_constraint)
             \o rename_constr_trigger(old_constraint, new_constraint)
        ELSE <<>>)

\* rename_constraint: the commands it adds to self.commands.
rename_constraint(old_constraint, new_constraint) ==
    << Cmd("AlterTableRenameMultiConstraint", "", "", "",
           old_constraint, new_constraint) >>
    \o (IF ~is_natively_inherited(old_constraint)
        THEN << Cmd("RenameFunction", get_trigger_procname(old_constraint),
                    get_trigger_procname(new_constraint), "",
                    NoDesc, NoDesc) >>
             \o create_constr_trigger_function(new_constraint)
             \o rename_constr_trigger(old_constraint, new_constraint)
        ELSE <<>>)

\* Fault: the physical constraint is dropped before the triggers and the
\* function.
drop_constraint_ConstraintFirst(constraint) ==
    << Cmd("AlterTableDrop", "", "", "", constraint, NoDesc) >>
    \o (IF ~is_natively_inherited(constraint)
        THEN drop_constr_trigger(constraint)
             \o drop_constr_trigger_function(
                    get_trigger_procname(constraint))
        ELSE <<>>)

\* Fault: the trigger function is not dropped.
drop_constraint_KeepsFunction(constraint) ==
    (IF ~is_natively_inherited(constraint)
     THEN drop_constr_trigger(constraint)
     ELSE <<>>)
    \o << Cmd("AlterTableDrop", "", "", "", constraint, NoDesc) >>

\* drop_constraint: the commands it adds to self.commands.
drop_constraint(constraint) ==
    (IF ~is_natively_inherited(constraint)
     THEN drop_constr_trigger(constraint)
          \o drop_constr_trigger_function(get_trigger_procname(constraint))
     ELSE <<>>)
    \o << Cmd("AlterTableDrop", "", "", "", constraint, NoDesc) >>

\* Fault: the replacement creates the new structures before dropping the
\* old ones.
alter_constraint_CreateBeforeDrop(old_constraint, new_constraint) ==
    IF old_constraint.delegated /\ ~new_constraint.delegated
    THEN create_constraint(new_constraint)
    ELSE IF ~old_constraint.delegated /\ new_constraint.delegated
    THEN drop_constraint(old_constraint)
    ELSE IF ~new_constraint.delegated
    THEN create_constraint(new_constraint) \o drop_constraint(old_constraint)
    ELSE <<>>

\* Fault: the replacement drops the constraint of the old descriptor but
\* keeps its triggers and its trigger function.
alter_constraint_KeepsOldTriggers(old_constraint, new_constraint) ==
    IF old_constraint.delegated /\ ~new_constraint.delegated
    THEN create_constraint(new_constraint)
    ELSE IF ~old_constraint.delegated /\ new_constraint.delegated
    THEN drop_constraint(old_constraint)
    ELSE IF ~new_constraint.delegated
    THEN << Cmd("AlterTableDrop", "", "", "", old_constraint, NoDesc) >>
         \o create_constraint(new_constraint)
    ELSE <<>>

\* alter_constraint: the commands it adds to self.commands.
alter_constraint(old_constraint, new_constraint) ==
    IF old_constraint.delegated /\ ~new_constraint.delegated
    THEN create_constraint(new_constraint)
    ELSE IF ~old_constraint.delegated /\ new_constraint.delegated
    THEN drop_constraint(old_constraint)
    ELSE IF ~new_constraint.delegated
    THEN drop_constraint(old_constraint) \o create_constraint(new_constraint)
    ELSE <<>>


(* ------------------- generation into the output block ------------------ *)

\* What generating one command yields: the statements it emitted, whether it
\* raised, and the command as it is afterwards.
Generated(stmts, err, cmd) == [stmts |-> stmts, err |-> err, cmd |-> cmd]

\* The statement a command without sub-commands renders to; trigger and
\* constraint names are quoted on rendering.
SimpleStmt(cmd) ==
    CASE cmd.c = "CreateOrReplaceFunction" ->
           Stmt("create_function", << Item(cmd.name, cmd.arg, "") >>)
      [] cmd.c = "RenameFunction" ->
           Stmt("rename_function", << Item(cmd.name, cmd.arg, "") >>)
      [] cmd.c = "DropFunction" ->
           Stmt("drop_function", << Item(cmd.name, "", "") >>)
      [] cmd.c = "CreateTrigger" ->
           Stmt("create_trigger",
                << Item(quote_ident(cmd.name), cmd.arg, cmd.extra) >>)
      [] cmd.c = "DisableTrigger" ->
           Stmt("disable_trigger",
                << Item(quote_ident(cmd.name), "", cmd.extra) >>)
      [] cmd.c = "AlterTriggerRenameTo" ->
           Stmt("rename_trigger",
                << Item(quote_ident(cmd.name), quote_ident(cmd.arg), "") >>)
      [] cmd.c = "DropTrigger" ->
           Stmt("drop_trigger", << Item(quote_ident(cmd.name), "", "") >>)
      [] cmd.c = "AlterTableRenameConstraintSimple" ->
           Stmt("rename_constraint",
                << Item(quote_ident(cmd.name), quote_ident(cmd.arg), "") >>)

\* AlterTableRenameMultiConstraint.generate and generate_extra: the rename
\* commands are added to the group's own commands, all of them are rendered,
\* then the comments of the new descriptor follow.  constraint_code of the
\* old descriptor raises before anything is added, that of the new one
\* after the renames were rendered.
RenameMultiConstraint_generate(cmd) ==
    IF constraint_code_raises(cmd.d)
    THEN Generated(<<>>, TRUE, cmd)
    ELSE LET sub == cmd.sub \o RenameMultiConstraint_commands(cmd.d, cmd.nd)
             renames == [i \in 1..Len(sub) |-> SimpleStmt(sub[i])]
             after == [cmd EXCEPT !.sub = sub]
         IN  IF constraint_code_raises(cmd.nd)
             THEN Generated(renames, TRUE, after)
             ELSE Generated(renames \o MultiConstraint_generate_extra(cmd.nd),
                            FALSE, after)

\* generate() of one command of a group.  An ALTER TABLE is one statement
\* holding the clauses its sub-command's code() returns, followed by the
\* sub-command's comments; code() raises when constraint_code does.
Command_generate(cmd) ==
    CASE cmd.c = "AlterTableAdd" ->
           IF constraint_code_raises(cmd.d)
           THEN Generated(<<>>, TRUE, cmd)
           ELSE Generated(
                    << Stmt("add_constraint", AddMultiConstraint_code(cmd.d)) >>
                    \o MultiConstraint_generate_extra(cmd.d), FALSE, cmd)
      [] cmd.c = "AlterTableDrop" ->
           IF constraint_code_raises(cmd.d)
           THEN Generated(<<>>, TRUE, cmd)
           ELSE Generated(
                    << Stmt("drop_constraint",
                            DropMultiConstraint_code(cmd.d)) >>, FALSE, cmd)
      [] cmd.c = "AlterTableRenameMultiConstraint" ->
           RenameMultiConstraint_generate(cmd)
      [] OTHER -> Generated(<< SimpleStmt(cmd) >>, FALSE, cmd)

RECURSIVE CommandGroup_generate(_)
\* CommandGroup.generate: the commands are generated into the block in the
\* order they were added; an exception ends the generation and leaves in the
\* block what the earlier commands emitted.  The result holds the block, the
\* error flag and the commands as they are afterwards.
CommandGroup_generate(cmds) ==
    IF Len(cmds) = 0
    THEN [block |-> <<>>, err |-> FALSE, cmds |-> <<>>]
    ELSE LET g == Command_generate(Head(cmds))
         IN  IF g.err
             THEN [block |-> g.stmts, err |-> TRUE,
                   cmds |-> << g.cmd >> \o Tail(cmds)]
             ELSE LET rest == CommandGroup_generate(Tail(cmds))
                  IN  [block |-> g.stmts \o rest.block, err |-> rest.err,
                       cmds |-> << g.cmd >> \o rest.cmds]


(* ------------------------------ backend -------------------------------- *)

\* The backend objects of the subject table: constraints and functions by
\* name and text, triggers by name, function, event and enabled flag.
EmptyBackend == [constraints |-> {}, triggers |-> {}, funcs |-> {}]

Names(objs) == {o.name : o \in objs}

\* The items of a statement as a set.
ItemSet(st) == {st.items[i] : i \in 1..Len(st.items)}

\* Whether the backend accepts statement st in state b.
Accepts(b, st) ==
    LET it == st.items[1]
    IN  CASE st.op = "add_constraint" ->
               /\ \A x \in ItemSet(st) : x.name \notin Names(b.constraints)
               /\ Cardinality(Names(ItemSet(st))) = Len(st.items)
          [] st.op = "drop_constraint" ->
               \A x \in ItemSet(st) : x.name \in Names(b.constraints)
          [] st.op = "rename_constraint" ->
               /\ it.name \in Names(b.constraints)
               /\ it.arg \notin Names(b.constraints)
          [] st.op = "comment" -> it.name \in Names(b.constraints)
          [] st.op = "create_function" -> TRUE
          [] st.op = "rename_function" ->
               it.name \in Names(b.funcs) /\ it.arg \notin Names(b.funcs)
          [] st.op = "drop_function" ->
               /\ it.name \in Names(b.funcs)
               /\ \A t \in b.triggers : t.proc # it.name
          [] st.op = "create_trigger" ->
               it.name \notin Names(b.triggers) /\ it.arg \in Names(b.funcs)
          [] st.op = "disable_trigger" -> it.name \in Names(b.triggers)
          [] st.op = "rename_trigger" ->
               /\ it.name \in Names(b.triggers)
               /\ it.arg \notin Names(b.triggers)
          [] st.op = "drop_trigger" -> it.name \in Names(b.triggers)

\* The backend after an accepted statement st.
Apply(b, st) ==
    LET it == st.items[1]
    IN  CASE st.op = "add_constraint" ->
               [b EXCEPT !.constraints =
                   @ \cup {[name |-> x.name, text |-> x.arg] : x \in ItemSet(st)}]
          [] st.op = "drop_constraint" ->
               [b EXCEPT !.constraints =
                   {c \in @ : c.name \notin Names(ItemSet(st))}]
          [] st.op = "rename_constraint" ->
               [b EXCEPT !.constraints =
                   {IF c.name = it.name THEN [c EXCEPT !.name = it.arg] ELSE c
                      : c \in @}]
          [] st.op = "comment" -> b
          [] st.op = "create_function" ->
               [b EXCEPT !.funcs =
                   {f \in @ : f.name # it.name}
                   \cup {[name |-> it.name, text |-> it.arg]}]
          [] st.op = "rename_function" ->
               [b EXCEPT
                   !.funcs =
                       {IF f.name = it.name THEN [f EXCEPT !.name = it.arg]
                        ELSE f : f \in @},
                   !.triggers =
                       {IF t.proc = it.name THEN [t EXCEPT !.proc = it.arg]
                        ELSE t : t \in @}]
          [] st.op = "drop_function" ->
               [b EXCEPT !.funcs = {f \in @ : f.name # it.name}]
          [] st.op = "create_trigger" ->
               [b EXCEPT !.triggers =
                   @ \cup {[name |-> it.name, proc |-> it.arg,
                            event |-> it.extra, enabled |-> TRUE]}]
          [] st.op = "disable_trigger" ->
               [b EXCEPT !.triggers =
                   {IF t.name = it.name THEN [t EXCEPT !.enabled = FALSE]
                    ELSE t : t \in @}]
          [] st.op = "rename_trigger" ->
               [b EXCEPT !.triggers =
                   {IF t.name = it.name THEN [t EXCEPT !.name = it.arg]
                    ELSE t : t \in @}]
          [] st.op = "drop_trigger" ->
               [b EXCEPT !.triggers = {t \in @ : t.name # it.name}]

RECURSIVE Execute(_, _)
\* The runner executes a block statement by statement in one transaction:
\* [ok, backend], the backend being the one before the block when a
\* statement is rejected.
Execute(b, stmts) ==
    IF Len(stmts) = 0 THEN [ok |-> TRUE, backend |-> b]
    ELSE IF ~Accepts(b, Head(stmts)) THEN [ok |-> FALSE, backend |-> b]
    ELSE LET r == Execute(Apply(b, Head(stmts)), Tail(stmts))
         IN  IF r.ok THEN r ELSE [ok |-> FALSE, backend |-> b]

(* --------------------- dbops/roles.py (role commands) ------------------ *)

\* Role.name of the roles the model draws from.
RoleNames == {"alice", "bob"}

\* A Role object: name, allow_login and is_superuser; password and
\* membership keep their default None.
Roles == [name : RoleNames, allow_login : BOOLEAN, is_superuser : BOOLEAN]

\* common.quote_literal: the string as it is written in a statement.
quote_literal(string) == "'" \o string \o "'"

\* Role.get_id
Role_get_id(role) == quote_ident(role.name)

\* Fault: the name is written as an identifier, not as a literal.
RoleExists_code_Identifier(name) ==
    "SELECT rolname FROM pg_catalog.pg_authid WHERE rolname = "
    \o quote_ident(name)

\* RoleExists.code: the query of the condition (layout whitespace aside).
RoleExists_code(name) ==
    "SELECT rolname FROM pg_catalog.pg_authid WHERE rolname = "
    \o quote_literal(name)

\* RoleCommand._render
RoleCommand_render(role) ==
    LET superuser == IF role.is_superuser THEN "SUPERUSER" ELSE ""
        login == IF role.allow_login THEN "LOGIN" ELSE "NOLOGIN"
        password == "PASSWORD NULL"
    IN  "ROLE " \o Role_get_id(role) \o " " \o superuser \o " " \o login
        \o " " \o password

\* CreateRole.__init__: the command keeps the role and the conditions of
\* the caller (None is the empty set); a RoleExists condition is held as
\* the name it was built with.
CreateRole_init(role, conditions, neg_conditions) ==
    [c |-> "CreateRole", name |-> role.name, object |-> role,
     conditions |-> conditions, neg_conditions |-> neg_conditions]

\* CreateRole.code, the membership being None.
CreateRole_code(cmd) ==
    LET membership == ""
    IN  "CREATE " \o RoleCommand_render(cmd.object) \o " " \o membership

\* DropRole(name, conditions=..., neg_conditions=...)
DropRole_init(name, conditions, neg_conditions) ==
    [c |-> "DropRole", name |-> name,
     object |-> [name |-> name, allow_login |-> FALSE,
                 is_superuser |-> FALSE],
     conditions |-> conditions, neg_conditions |-> neg_conditions]

\* DropRole.code
DropRole_code(cmd) == "DROP ROLE " \o quote_ident(cmd.name)

\* Whether text begins with prefix.
StartsWith(text, prefix) ==
    /\ Len(text) >= Len(prefix)
    /\ SubSeq(text, 1, Len(prefix)) = prefix

\* The rows a condition's query returns: the role names of pg_authid equal
\* to the literal the query compares rolname with.
QueryRows(authid, query) ==
    {r \in authid :
        query = "SELECT rolname FROM pg_catalog.pg_authid WHERE rolname = "
                \o "'" \o r \o "'"}

\* A command executes only if the query of every condition returns a row and
\* the query of no neg_condition does.
RoleGateOpen(authid, cmd) ==
    /\ \A n \in cmd.conditions : QueryRows(authid, RoleExists_code(n)) # {}
    /\ \A n \in cmd.neg_conditions : QueryRows(authid, RoleExists_code(n)) = {}

\* The role a CREATE ROLE or DROP ROLE statement names.
NamedRoles(text, verb) ==
    {r \in RoleNames : StartsWith(text, verb \o " ROLE \"" \o r \o "\"")}

\* CREATE ROLE fails for a role that exists, DROP ROLE for one that does not.
RoleAccepts(authid, text) ==
    IF StartsWith(text, "CREATE ROLE ")
    THEN NamedRoles(text, "CREATE") # {}
         /\ NamedRoles(text, "CREATE") \cap authid = {}
    ELSE NamedRoles(text, "DROP") # {}
         /\ NamedRoles(text, "DROP") \subseteq authid

\* pg_authid after an accepted statement.
RoleApply(authid, text) ==
    IF StartsWith(text, "CREATE ROLE ")
    THEN authid \cup NamedRoles(text, "CREATE")
    ELSE authid \ NamedRoles(text, "DROP")

(* ---------------------------- state machine ---------------------------- *)

VARIABLES
    cur,        \* the constraint as the schema holds it, NoDesc when absent
    backend,    \* the backend objects of the subject table
    op,         \* class of the live command group (add, rename, alter,
                \* drop), "none" when there is none
    old,        \* its _constraint
    new,        \* its _new_constraint (NoDesc for add and drop)
    commands,   \* its self.commands after generate()
    block,      \* the statements generate() emitted into the block
    err,        \* whether generate() raised
    passes,     \* how many times generate() ran on the live group
    first,      \* the statements its first generate() emitted
    applied,    \* whether the runner committed the block
    given,      \* the conditions and neg_conditions its caller passed
    conds,      \* its conditions and neg_conditions
    rerun,      \* whether it repeats the transition applied just before
    skipped,    \* whether its conditions kept the block from executing
    trail,      \* history: the schema and the backend before each applied
                \* transition
    groups,     \* two command groups executing side by side on the table
    roles,      \* pg_authid: the names of the roles of the backend
    rolecmd,    \* the role command applied last, NoRoleCmd when none
    rolehist    \* history, per role name, since the role was last absent:
                \* applications of CreateRole with and without the
                \* RoleExists guard, CREATE ROLE statements executed

lifevars ==
    <<cur, op, old, new, commands, block, err, passes, first, applied, given,
      conds, rerun, skipped, trail>>

rolevars == <<roles, rolecmd, rolehist>>

vars == <<lifevars, backend, groups, rolevars>>

NoRoleCmd ==
    [c |-> "none", name |-> "", guarded |-> FALSE, code |-> "",
     executed |-> FALSE, failed |-> FALSE, before |-> {}]

NoRoleHist == [guarded |-> 0, bare |-> 0, issued |-> 0]

\* Fault: the caller's conditions are not passed on to the group.
InheritableConstraintBase_init_DropsConditions(conditions, neg_conditions) ==
    [conditions |-> {}, neg_conditions |-> {}]

\* AlterTableInheritableConstraintBase.__init__: the conditions and
\* neg_conditions of the caller become those of the command group (None is
\* the empty set).
InheritableConstraintBase_init(conditions, neg_conditions) ==
    [conditions |-> conditions, neg_conditions |-> neg_conditions]

\* The caller passes no condition (None, None).
NoConditions == [conditions |-> {}, neg_conditions |-> {}]

\* The existence condition a caller pairs a create or drop path with: the
\* first physical constraint of the descriptor is on the table.
ConstraintExists(d) ==
    [exists |-> IF is_multiconstraint(d)
                THEN numbered_constraint_name(d, 0, TRUE)
                ELSE constraint_name(d, TRUE)]

\* A condition evaluated against the live backend.
Holds(b, c) == c.exists \in Names(b.constraints)

\* The block of a group executes only if every condition holds and no
\* neg_condition does.
GateOpen(b, cnd) ==
    /\ \A c \in cnd.conditions : Holds(b, c)
    /\ \A c \in cnd.neg_conditions : ~Holds(b, c)

Init ==
    /\ cur = NoDesc
    /\ backend = EmptyBackend
    /\ op = "none"
    /\ old = NoDesc
    /\ new = NoDesc
    /\ commands = <<>>
    /\ block = <<>>
    /\ err = FALSE
    /\ passes = 0
    /\ first = <<>>
    /\ applied = FALSE
    /\ given = NoConditions
    /\ conds = InheritableConstraintBase_init({}, {})
    /\ rerun = FALSE
    /\ skipped = FALSE
    /\ trail = <<>>
    /\ groups = <<>>
    /\ roles = {}
    /\ rolecmd = NoRoleCmd
    /\ rolehist = [n \in RoleNames |-> NoRoleHist]

\* The caller builds the group with its conditions; the runner generates it
\* (added holds what generate() adds to the empty self.commands of the new
\* object) and, if the conditions of the group let it, runs the block in one
\* transaction: the schema moves to `next` only when generation did not
\* raise and the backend accepted every statement it was given.  (cnd, g,
\* open, r and done name the values computed on the way.)
Run(kind, o, n, added, next, args, again) ==
    \E cnd \in {InheritableConstraintBase_init(args.conditions,
                                               args.neg_conditions)} :
    \E g \in {CommandGroup_generate(added)} :
    \E open \in {GateOpen(backend, cnd)} :
    \E r \in {IF open THEN Execute(backend, g.block)
              ELSE [ok |-> TRUE, backend |-> backend]} :
    \E done \in {~g.err /\ r.ok} :
        /\ op' = kind
        /\ old' = o
        /\ new' = n
        /\ commands' = g.cmds
        /\ block' = g.block
        /\ err' = g.err
        /\ passes' = 1
        /\ first' = g.block
        /\ applied' = done
        /\ given' = args
        /\ conds' = cnd
        /\ rerun' = again
        /\ skipped' = (~g.err /\ ~open)
        /\ backend' = IF done THEN r.backend ELSE backend
        /\ cur' = IF done THEN next ELSE cur
        /\ trail' = IF done /\ ~again
                    THEN Append(trail, [op |-> kind, cur |-> cur,
                                        backend |-> backend])
                    ELSE trail
        /\ UNCHANGED <<groups, rolevars>>

\* A transition of the schema, its group built without conditions.
Migrate(kind, o, n, added, next) ==
    Run(kind, o, n, added, next, NoConditions, FALSE)

\* Fault: the delegated flag is not tested.
AddGenerate_IgnoresDelegation(d) == create_constraint(d)

\* AlterTableAddInheritableConstraint.generate
AddGenerate(d) == IF ~d.delegated THEN create_constraint(d) ELSE <<>>

\* AlterTableRenameInheritableConstraint.generate
RenameGenerate(o, n) == IF ~o.delegated THEN rename_constraint(o, n) ELSE <<>>

\* AlterTableAlterInheritableConstraint.generate
AlterGenerate(o, n) == alter_constraint(o, n)

\* AlterTableDropInheritableConstraint.generate
DropGenerate(d) == IF ~d.delegated THEN drop_constraint(d) ELSE <<>>

\* A constraint is added to the schema.
Create ==
    /\ op = "none"
    /\ cur = NoDesc
    /\ \E d \in Descriptors : Migrate("add", d, NoDesc, AddGenerate(d), d)

\* The schema constraint is renamed: the new descriptor differs in its id.
Rename ==
    /\ op = "none"
    /\ cur # NoDesc
    /\ \E i \in Ids :
         LET n == [cur EXCEPT !.id = i]
         IN  Migrate("rename", cur, n, RenameGenerate(cur, n), n)

\* The schema constraint is altered: same id, any other field may change.
Alter ==
    /\ op = "none"
    /\ cur # NoDesc
    /\ \E n \in Descriptors :
         /\ n.id = cur.id
         /\ Migrate("alter", cur, n, AlterGenerate(cur, n), n)

\* The schema constraint is dropped.
Drop ==
    /\ op = "none"
    /\ cur # NoDesc
    /\ Migrate("drop", cur, NoDesc, DropGenerate(cur), NoDesc)

\* The Create or the Drop that was just applied is run once more, by a new
\* group of the same class on the same descriptor, against the backend that
\* already reflects it; the caller may pair it with the existence condition
\* (negated for a Create).
Reapply ==
    /\ op \in {"add", "drop"}
    /\ applied
    /\ ~rerun
    /\ \E guarded \in BOOLEAN :
         LET exists == ConstraintExists(old)
             args == IF ~guarded THEN NoConditions
                     ELSE IF op = "add"
                     THEN [conditions |-> {}, neg_conditions |-> {exists}]
                     ELSE [conditions |-> {exists}, neg_conditions |-> {}]
         IN  Run(op, old, new,
                 IF op = "add" THEN AddGenerate(old) ELSE DropGenerate(old),
                 cur, args, TRUE)

\* The report of the live command group is cleared.
Settle ==
    /\ op # "none"
    /\ op' = "none"
    /\ old' = NoDesc
    /\ new' = NoDesc
    /\ commands' = <<>>
    /\ block' = <<>>
    /\ err' = FALSE
    /\ passes' = 0
    /\ first' = <<>>
    /\ applied' = FALSE
    /\ given' = NoConditions
    /\ conds' = InheritableConstraintBase_init({}, {})
    /\ rerun' = FALSE
    /\ skipped' = FALSE
    /\ UNCHANGED <<cur, backend, groups, rolevars>>

\* The command group and its descriptors are discarded once the migration
\* is over; the next schema change builds a new group.
Discard == Settle /\ trail' = <<>>

Next == Create \/ Rename \/ Alter \/ Drop \/ Reapply \/ Discard

Spec == Init /\ [][Next]_vars

\* Longest history of applied transitions that is kept.
MaxTrail == 3

\* As Discard, the history being kept: the life of one constraint, from its
\* Create to its Drop.
Retire ==
    /\ Settle
    /\ ~(op = "drop" /\ applied)
    /\ Len(trail) < MaxTrail
    /\ UNCHANGED trail

HistoryNext == Create \/ Rename \/ Drop \/ Retire

\* The lives of one constraint made of Create, Rename and Drop, with the
\* history of the backend.
HistorySpec == Init /\ [][HistoryNext]_vars

(* ------------------ generating a command group again ------------------- *)

MaxPasses == 2

\* What the generate() of the live group adds to self.commands, by class.
Adds(kind, o, n) ==
    CASE kind = "add" -> AddGenerate(o)
      [] kind = "rename" -> RenameGenerate(o, n)
      [] kind = "alter" -> AlterGenerate(o, n)
      [] kind = "drop" -> DropGenerate(o)

\* generate() is called once more on the live group object with a new
\* block: it adds its commands to the self.commands left by the earlier
\* calls and generates all of them; nothing is executed.
Regenerate ==
    /\ op # "none"
    /\ passes < MaxPasses
    /\ \E g \in {CommandGroup_generate(commands \o Adds(op, old, new))} :
         /\ commands' = g.cmds
         /\ block' = g.block
         /\ err' = g.err
    /\ passes' = passes + 1
    /\ UNCHANGED <<cur, backend, op, old, new, first, applied, given, conds,
                   rerun, skipped, trail, groups, rolevars>>

RegenerateNext ==
    Create \/ Rename \/ Alter \/ Drop \/ Regenerate \/ Discard

\* The lifecycle with command groups that are generated more than once.
RegenerateSpec == Init /\ [][RegenerateNext]_vars

(* ------------- renames to a descriptor of any scope and kind ----------- *)

\* AlterTableRenameInheritableConstraint takes any two descriptors: the
\* constraint created last is renamed to a descriptor with another id whose
\* scope, kind, fragments and delegation are chosen freely.
RenameTo ==
    /\ op = "none"
    /\ cur # NoDesc
    /\ Len(trail) = 1
    /\ trail[1].op = "add"
    /\ \E n \in Descriptors :
         /\ n.id # cur.id
         /\ Migrate("rename", cur, n, RenameGenerate(cur, n), n)

ReshapeNext == Create \/ RenameTo \/ Drop \/ Retire

\* The lives Create, Rename to any descriptor, Drop of one constraint, with
\* the history of the backend.
ReshapeSpec == Init /\ [][ReshapeNext]_vars

(* ------------------ two constraints on the same table ----------------- *)

\* The descriptors whose command groups generate without raising.
Renderable ==
    {d \in Descriptors : ~d.delegated /\ ~constraint_code_raises(d)}

\* A command group whose generated block is being executed: its class, its
\* descriptor, its block, the index of its next statement and whether the
\* backend rejected a statement of it.
Group(kind, d) ==
    [kind |-> kind, d |-> d,
     block |-> CommandGroup_generate(
                   IF kind = "add" THEN AddGenerate(d)
                   ELSE DropGenerate(d)).block,
     pc |-> 1, failed |-> FALSE]

\* Whether every statement of the group has been executed.
Finished(g) == g.pc > Len(g.block)

\* The Create groups of two constraints with distinct ids on the table are
\* generated; the first one is that of the constraint with id "a".
PairCreate ==
    /\ groups = <<>>
    /\ op = "none"
    /\ cur = NoDesc
    /\ \E d1 \in Renderable, d2 \in Renderable :
         /\ d1.id = "a"
         /\ d2.id = "b"
         /\ groups' = << Group("add", d1), Group("add", d2) >>
    /\ UNCHANGED <<lifevars, backend, rolevars>>

\* One of the two groups executes its next statement.
PairStep ==
    /\ groups # <<>>
    /\ \E i \in 1..2 :
         LET g == groups[i]
             st == g.block[g.pc]
         IN  /\ ~g.failed
             /\ ~Finished(g)
             /\ IF Accepts(backend, st)
                THEN /\ backend' = Apply(backend, st)
                     /\ groups' = [groups EXCEPT ![i].pc = @ + 1]
                ELSE /\ backend' = backend
                     /\ groups' = [groups EXCEPT ![i].failed = TRUE]
    /\ UNCHANGED <<lifevars, rolevars>>

\* Both constraints exist: their Drop groups are generated.
PairDrop ==
    /\ groups # <<>>
    /\ \A i \in 1..2 : groups[i].kind = "add" /\ Finished(groups[i])
    /\ groups' = << Group("drop", groups[1].d), Group("drop", groups[2].d) >>
    /\ UNCHANGED <<lifevars, backend, rolevars>>

PairNext == PairCreate \/ PairStep \/ PairDrop

\* Two command groups of distinct constraints executing side by side, each
\* in its own order.
PairSpec == Init /\ [][PairNext]_vars

(* ------------------------ role commands applied ------------------------ *)

\* Most applications of CreateRole to one role name while the role exists.
MaxApply == 2

\* The runner applies one role command: the statement is executed if the
\* conditions of the command allow it, and fails if the backend rejects it.
ApplyRoleCommand(cmd, text) ==
    LET open == RoleGateOpen(roles, cmd)
        ok == open /\ RoleAccepts(roles, text)
    IN  /\ roles' = IF ok THEN RoleApply(roles, text) ELSE roles
        /\ rolecmd' =
              [c |-> cmd.c, name |-> cmd.name,
               guarded |-> (cmd.conditions \cup cmd.neg_conditions # {}),
               code |-> text, executed |-> open, failed |-> (open /\ ~ok),
               before |-> roles]
        /\ rolehist' =
              IF cmd.c = "CreateRole"
              THEN [rolehist EXCEPT ![cmd.name] =
                      [guarded |-> @.guarded
                                   + (IF cmd.neg_conditions # {} THEN 1 ELSE 0),
                       bare |-> @.bare
                                + (IF cmd.neg_conditions = {} THEN 1 ELSE 0),
                       issued |-> @.issued + (IF open THEN 1 ELSE 0)]]
              ELSE IF ok
              THEN [rolehist EXCEPT ![cmd.name] = NoRoleHist]
              ELSE rolehist
        /\ UNCHANGED <<lifevars, backend, groups>>

\* CreateRole(role, neg_conditions={RoleExists(role.name)}) is applied, or
\* CreateRole(role) without conditions.
ApplyCreateRole ==
    \E role \in Roles, guarded \in BOOLEAN :
        /\ rolehist[role.name].guarded + rolehist[role.name].bare < MaxApply
        /\ LET cmd == CreateRole_init(role, {},
                          IF guarded THEN {role.name} ELSE {})
           IN  ApplyRoleCommand(cmd, CreateRole_code(cmd))

\* DropRole(name, conditions={RoleExists(name)}) is applied, or
\* DropRole(name) without conditions.
ApplyDropRole ==
    \E name \in RoleNames, guarded \in BOOLEAN :
        LET cmd == DropRole_init(name, IF guarded THEN {name} ELSE {}, {})
        IN  ApplyRoleCommand(cmd, DropRole_code(cmd))

RoleNext == ApplyCreateRole \/ ApplyDropRole

\* Role commands applied to a backend that starts without roles.
RoleSpec == Init /\ [][RoleNext]_vars


(* ------------------------- vocabulary of the claims -------------------- *)

TriggerOps == {"create_trigger", "disable_trigger", "rename_trigger",
               "drop_trigger"}

FunctionOps == {"create_function", "rename_function", "drop_function"}

ConstraintOps == {"add_constraint", "rename_constraint", "drop_constraint"}

\* Statements that materialize objects, and statements that remove them.
CreateOps == {"add_constraint", "comment", "create_function",
              "create_trigger", "disable_trigger"}

DropOps == {"drop_trigger", "drop_function", "drop_constraint"}

\* The classes of the commands of a group, in the order they were added.
ClassesOf(cmds) == [i \in 1..Len(cmds) |-> cmds[i].c]

\* The kinds of the statements of a block, in order.
OpsOf(blk) == [i \in 1..Len(blk) |-> blk[i].op]

\* The statements of a block whose kind is in ops, in order.
Only(blk, ops) == SelectSeq(blk, LAMBDA st : st.op \in ops)

\* The names a descriptor's objects are expected to carry in a statement.
BaseName(d) == "\"pg:" \o d.id \o ";schemaconstr\""

NumberedName(d, i) == "\"pg:" \o d.id \o ";schemaconstr#" \o ToString(i) \o "\""

InsTriggerName(d) == "\"pg:" \o d.id \o ";schemaconstr_instrigger\""

UpdTriggerName(d) == "\"pg:" \o d.id \o ";schemaconstr_updtrigger\""

ProcName(d) == "edgedb." \o d.id \o "_trigproc"

\* The names of the items of a statement, in order.
ItemNames(st) == [i \in 1..Len(st.items) |-> st.items[i].name]

\* The Multi case of the specification: table-wide with several fragments.
IsMulti(d) == d.scope = "table" /\ Len(d.frags) > 1

\* The physical constraint names of a descriptor, in fragment order.
PhysicalNames(d) ==
    IF IsMulti(d)
    THEN [i \in 1..Len(d.frags) |-> NumberedName(d, i - 1)]
    ELSE << BaseName(d) >>

(* ------------------------------- claims -------------------------------- *)

\* C1: for a delegated descriptor the Create, Rename and Drop transitions
\* emit an empty command group (for Rename the flag is the old
\* descriptor's): no command is added to the group and no statement is
\* emitted, whatever the scope, kind and fragment count.
C1_DelegatedEmitsNothing ==
    (op \in {"add", "rename", "drop"} /\ old.delegated)
        => (commands = <<>> /\ block = <<>> /\ ~err)

C1_Witness ==
    /\ op = "rename"
    /\ old.delegated
    /\ old.scope = "table"
    /\ old.type = "unique"
    /\ Len(old.frags) > 1
    /\ new.id # old.id

\* The create part and the drop part of an Alter, as the Create and the Drop
\* transition of a non-delegated descriptor emit them.
CreateSequence(d) == CommandGroup_generate(create_constraint(d)).block

DropSequence(d) == CommandGroup_generate(drop_constraint(d)).block

\* C2: the Alter transition emits, by (old.delegated, new.delegated): (T,T)
\* nothing; (T,F) the Create sequence of the new descriptor only; (F,T) the
\* Drop sequence of the old descriptor only; (F,F) the Drop sequence of the
\* old descriptor followed by the Create sequence of the new one, every drop
\* statement before every create statement.
C2_AlterMatrix ==
    op = "alter" =>
        /\ (old.delegated /\ new.delegated) => block = <<>>
        /\ (old.delegated /\ ~new.delegated) =>
              /\ block = CreateSequence(new)
              /\ \A i \in 1..Len(block) : block[i].op \in CreateOps
        /\ (~old.delegated /\ new.delegated) =>
              /\ block = DropSequence(old)
              /\ \A i \in 1..Len(block) : block[i].op \in DropOps
        /\ (~old.delegated /\ ~new.delegated) =>
              /\ block = DropSequence(old) \o CreateSequence(new)
              /\ Only(block, DropOps) = DropSequence(old)
              /\ \A i, j \in 1..Len(block) :
                    (block[i].op \in DropOps /\ block[j].op \in CreateOps)
                        => i < j

C2_Witness ==
    /\ op = "alter"
    /\ applied
    /\ ~old.delegated /\ ~new.delegated
    /\ old.type = "unique" /\ new.type = "unique"
    /\ old.frags # new.frags

\* C3: a descriptor of kind Check never produces a trigger or a
\* trigger-function statement: none in its Create, Rename and Drop, none in
\* the drop part of an Alter whose old descriptor is Check and none in the
\* create part of an Alter whose new descriptor is Check.
C3_CheckHasNoTriggers ==
    /\ (op \in {"add", "rename", "drop"} /\ old.type = "check") =>
          Only(block, TriggerOps \cup FunctionOps) = <<>>
    /\ (op = "alter" /\ old.type = "check") =>
          Only(block, {"drop_trigger", "drop_function", "rename_trigger",
                       "rename_function"}) = <<>>
    /\ (op = "alter" /\ new.type = "check") =>
          Only(block, {"create_trigger", "disable_trigger", "create_function",
                       "rename_trigger", "rename_function"}) = <<>>

C3_Witness ==
    /\ op = "alter"
    /\ applied
    /\ old.type = "check" /\ new.type = "check"
    /\ ~old.delegated /\ ~new.delegated
    /\ Len(block) > 1

\* C4: the Drop of a non-delegated, not natively inherited descriptor emits
\* exactly: drop insert trigger, drop update trigger, drop trigger function,
\* drop the physical constraint(s); the constraint drop is the last one.
C4_DropOrder ==
    (op = "drop" /\ ~old.delegated /\ old.type # "check" /\ ~err) =>
        /\ ClassesOf(commands) = << "DropTrigger", "DropTrigger",
                                    "DropFunction", "AlterTableDrop" >>
        /\ OpsOf(block) = << "drop_trigger", "drop_trigger", "drop_function",
                             "drop_constraint" >>
        /\ ItemNames(block[1]) = << InsTriggerName(old) >>
        /\ ItemNames(block[2]) = << UpdTriggerName(old) >>
        /\ ItemNames(block[3]) = << ProcName(old) >>
        /\ ItemNames(block[4]) = PhysicalNames(old)

C4_Witness ==
    /\ op = "drop"
    /\ applied
    /\ ~old.delegated
    /\ old.type = "unique"
    /\ IsMulti(old)


\* The trigger-emulation statements of a block, in order.
Emulation(blk) ==
    Only(blk, {"create_function", "create_trigger", "disable_trigger"})

\* The Create transitions C5 is about.
EmulatedCreate ==
    op = "add" /\ ~old.delegated /\ old.type # "check" /\ ~err

\* C5 as stated: create-or-replace the trigger function, create the insert
\* trigger, create the update trigger, and only then disable both triggers.
C5_DisableAfterBothCreates ==
    EmulatedCreate =>
        /\ OpsOf(Emulation(block)) =
              << "create_function", "create_trigger", "create_trigger",
                 "disable_trigger", "disable_trigger" >>
        /\ \A i, j \in 1..Len(block) :
              (block[i].op = "create_trigger" /\ block[j].op = "disable_trigger")
                  => i < j

\* C5 (amended): the Create of a non-delegated, not natively inherited
\* descriptor emits, after the ADD CONSTRAINT: create-or-replace the trigger
\* function, create the insert trigger, disable the insert trigger (self
\* only), create the update trigger, disable the update trigger (self only);
\* each trigger is bound to the function created before it and is disabled
\* right after its own creation.
C5_CreateOrder ==
    EmulatedCreate =>
        LET em == Emulation(block)
        IN  /\ ClassesOf(commands) =
                  << "AlterTableAdd", "CreateOrReplaceFunction",
                     "CreateTrigger", "DisableTrigger", "CreateTrigger",
                     "DisableTrigger" >>
            /\ block[1].op = "add_constraint"
            /\ OpsOf(em) =
                  << "create_function", "create_trigger", "disable_trigger",
                     "create_trigger", "disable_trigger" >>
            /\ em[1].items[1].name = ProcName(old)
            /\ em[2].items[1] =
                  Item(InsTriggerName(old), ProcName(old), "insert")
            /\ em[3].items[1] = Item(InsTriggerName(old), "", "self_only")
            /\ em[4].items[1].name = UpdTriggerName(old)
            /\ em[4].items[1].arg = ProcName(old)
            /\ em[5].items[1] = Item(UpdTriggerName(old), "", "self_only")

C5_Witness ==
    /\ EmulatedCreate
    /\ applied
    /\ old.type = "unique"
    /\ old.scope = "table"

\* C6: the Rename of a non-delegated, not natively inherited descriptor
\* emits, comments aside: the rename of each physical constraint, the rename
\* of the trigger function from the old to the new procedure name, the
\* create-or-replace of the function under the new name with the body of the
\* new descriptor, the rename of the insert trigger, the rename of the update
\* trigger, both to the names of the new descriptor.
C6_RenameOrder ==
    (op = "rename" /\ ~old.delegated /\ old.type # "check" /\ ~err) =>
        LET st == SelectSeq(block, LAMBDA x : x.op # "comment")
            k == Len(PhysicalNames(old))
        IN  /\ ClassesOf(commands) =
                  << "AlterTableRenameMultiConstraint", "RenameFunction",
                     "CreateOrReplaceFunction", "AlterTriggerRenameTo",
                     "AlterTriggerRenameTo" >>
            /\ Len(st) = k + 4
            /\ \A i \in 1..k :
                  /\ st[i].op = "rename_constraint"
                  /\ st[i].items[1].name = PhysicalNames(old)[i]
                  /\ st[i].items[1].arg = PhysicalNames(new)[i]
            /\ st[k + 1] =
                  Stmt("rename_function",
                       << Item(ProcName(old), ProcName(new), "") >>)
            /\ st[k + 2] =
                  Stmt("create_function",
                       << Item(ProcName(new), get_trigger_proc_text(new),
                               "") >>)
            /\ st[k + 3] =
                  Stmt("rename_trigger",
                       << Item(InsTriggerName(old), InsTriggerName(new),
                               "") >>)
            /\ st[k + 4] =
                  Stmt("rename_trigger",
                       << Item(UpdTriggerName(old), UpdTriggerName(new),
                               "") >>)

C6_Witness ==
    /\ op = "rename"
    /\ applied
    /\ ~old.delegated
    /\ old.type = "unique"
    /\ IsMulti(old)
    /\ new.id # old.id

\* The set of the elements of a sequence.
Range(seq) == {seq[i] : i \in 1..Len(seq)}

\* C7: after any sequence of Create, Rename, Alter and Drop on a backend
\* that starts empty, the insert trigger, the update trigger and the trigger
\* function either all exist or none exists, and they exist only while the
\* schema's descriptor is non-delegated and not natively inherited and its
\* physical constraint(s) exist on the table.
C7_TriggerLifecycle ==
    \/ backend.triggers = {} /\ backend.funcs = {}
    \/ /\ cur # NoDesc
       /\ ~cur.delegated
       /\ cur.type # "check"
       /\ Cardinality(backend.triggers) = 2
       /\ Names(backend.triggers) = {InsTriggerName(cur), UpdTriggerName(cur)}
       /\ \A t \in backend.triggers : t.proc = ProcName(cur)
       /\ Cardinality(backend.funcs) = 1
       /\ Names(backend.funcs) = {ProcName(cur)}
       /\ Names(backend.constraints) = Range(PhysicalNames(cur))

C7_Witness ==
    /\ op = "rename"
    /\ applied
    /\ Cardinality(backend.triggers) = 2
    /\ Cardinality(backend.constraints) > 1
    /\ cur.id = "a"

\* C8: a Row-scope descriptor yields one constraint under the base name; a
\* TableWide (Unique) descriptor yields numbered constraints if and only if
\* it has more than one fragment and one constraint under the base name with
\* exactly one fragment; is_multiconstraint() is true exactly in the
\* numbered case; Add, Drop and Rename make the same choice.
C8_SingleMultiSelection ==
    /\ (op = "add" /\ ~old.delegated /\ ~err) =>
          /\ ItemNames(block[1]) = PhysicalNames(old)
          /\ is_multiconstraint(old) <=>
                (ItemNames(block[1]) # << BaseName(old) >>)
          /\ (old.scope = "row") => ItemNames(block[1]) = << BaseName(old) >>
    /\ (op = "drop" /\ ~old.delegated /\ ~err) =>
          /\ ItemNames(block[Len(block)]) = PhysicalNames(old)
          /\ is_multiconstraint(old) <=>
                (ItemNames(block[Len(block)]) # << BaseName(old) >>)
    /\ (op = "rename" /\ ~old.delegated /\ ~err) =>
          LET rn == Only(block, {"rename_constraint"})
          IN  /\ [i \in 1..Len(rn) |-> rn[i].items[1].name]
                    = PhysicalNames(old)
              /\ is_multiconstraint(old) <=>
                    (rn[1].items[1].name # BaseName(old))

C8_Witness ==
    /\ op = "rename"
    /\ applied
    /\ ~old.delegated
    /\ old.scope = "table"
    /\ Len(old.frags) = 1
    /\ new.id # old.id

\* C9: for a multi-constraint with k fragments Add uses exactly the names
\* mangle(base#0) .. mangle(base#(k-1)), base being the constraint id
\* followed by ';schemaconstr'; the k names are pairwise distinct, differ
\* from the base name and are those of any descriptor with the same id,
\* whatever its fragments.
C9_NumberedNames ==
    (op = "add" /\ ~old.delegated /\ ~err /\ IsMulti(old)) =>
        LET names == ItemNames(block[1])
            k == Len(old.frags)
        IN  /\ Len(names) = k
            /\ \A i \in 1..k :
                  /\ names[i] = NumberedName(old, i - 1)
                  /\ names[i] # constraint_name(old, TRUE)
                  /\ \A d \in Descriptors :
                        d.id = old.id =>
                            numbered_constraint_name(d, i - 1, TRUE) = names[i]
            /\ Cardinality(Range(names)) = k
            /\ applied => Names(backend.constraints) = Range(names)

C9_Witness ==
    /\ op = "add"
    /\ applied
    /\ IsMulti(old)
    /\ Len(old.frags) = MaxFrags
    /\ old.frags[1] # old.frags[2]

\* C10: a transition that fails with the invalid-kind error has emitted no
\* statement into the output block.
C10_NoPartialGroup == err => block = <<>>


\* The statements of a block of the given kind whose first item has the
\* given name.
StmtsOn(blk, kind, name) ==
    SelectSeq(blk, LAMBDA st : st.op = kind /\ st.items[1].name = name)

\* C15: the Create of a non-delegated TableWide Unique descriptor with k >= 2
\* fragments emits exactly k numbered physical constraints, one per
\* fragment, exactly one create-or-replace of the trigger function, exactly
\* one create of the insert trigger, exactly one create of the update
\* trigger and exactly one disable per trigger, each on the declaring table
\* only.
C15_MultiCreateCounts ==
    (op = "add" /\ ~old.delegated /\ old.scope = "table"
     /\ old.type = "unique" /\ Len(old.frags) >= 2 /\ ~err) =>
        LET k == Len(old.frags)
            adds == Only(block, {"add_constraint"})
            ins == StmtsOn(block, "create_trigger", InsTriggerName(old))
            upd == StmtsOn(block, "create_trigger", UpdTriggerName(old))
            disIns == StmtsOn(block, "disable_trigger", InsTriggerName(old))
            disUpd == StmtsOn(block, "disable_trigger", UpdTriggerName(old))
        IN  /\ Len(adds) = 1
            /\ Len(adds[1].items) = k
            /\ \A i \in 1..k : adds[1].items[i].name = NumberedName(old, i - 1)
            /\ Len(Only(block, {"create_function"})) = 1
            /\ Len(Only(block, {"create_trigger"})) = 2
            /\ Len(ins) = 1 /\ ins[1].items[1].extra = "insert"
            /\ Len(upd) = 1
            /\ Len(Only(block, {"disable_trigger"})) = 2
            /\ Len(disIns) = 1 /\ disIns[1].items[1].extra = "self_only"
            /\ Len(disUpd) = 1 /\ disUpd[1].items[1].extra = "self_only"
            /\ applied =>
                  /\ Cardinality(backend.constraints) = k
                  /\ Cardinality(backend.funcs) = 1
                  /\ Cardinality(backend.triggers) = 2
                  /\ \A t \in backend.triggers : ~t.enabled

C15_Witness ==
    /\ op = "add"
    /\ applied
    /\ ~old.delegated
    /\ old.scope = "table"
    /\ old.type = "unique"
    /\ Len(old.frags) = MaxFrags
    /\ Cardinality(backend.constraints) = MaxFrags
    /\ Cardinality(backend.triggers) = 2

RECURSIVE AndFrom(_, _)
\* " AND (p_i) AND (p_i+1) ..." for the fragments from the i-th on.
AndFrom(frags, i) ==
    IF i > Len(frags) THEN ""
    ELSE " AND (" \o frags[i].plain \o ")" \o AndFrom(frags, i + 1)

\* The CHECK text of a Row-scope descriptor: the plain text of the single
\* fragment, or the parenthesized fragments joined by AND in fragment order.
CheckText(frags) ==
    IF Len(frags) = 1
    THEN "CHECK (" \o frags[1].plain \o ")"
    ELSE "CHECK ((" \o frags[1].plain \o ")" \o AndFrom(frags, 2) \o ")"

\* C16: the Create of a non-delegated Row-scope Check descriptor with n >= 1
\* fragments emits exactly one ADD CONSTRAINT, under the base name, whose
\* text is the CHECK of the AND-conjunction of every fragment's plain text
\* in fragment order, and no trigger or trigger-function statement.
C16_RowCheckCreate ==
    (op = "add" /\ ~old.delegated /\ old.scope = "row"
     /\ old.type = "check" /\ ~err) =>
        LET adds == Only(block, {"add_constraint"})
        IN  /\ ClassesOf(commands) = << "AlterTableAdd" >>
            /\ Len(adds) = 1
            /\ adds[1].items = << Item(BaseName(old), CheckText(old.frags), "") >>
            /\ Only(block, TriggerOps \cup FunctionOps) = <<>>
            /\ \A i \in 1..Len(block) :
                  block[i].op \in {"add_constraint", "comment"}
            /\ applied =>
                  /\ backend.constraints =
                        {[name |-> BaseName(old),
                          text |-> CheckText(old.frags)]}
                  /\ backend.triggers = {}
                  /\ backend.funcs = {}

C16_Witness ==
    /\ op = "add"
    /\ applied
    /\ ~old.delegated
    /\ old.scope = "row"
    /\ old.type = "check"
    /\ Len(old.frags) = MaxFrags
    /\ old.frags[1] # old.frags[2]

\* The physical text of each fragment of the pool in a table-wide unique
\* constraint.
UniqueText(frag) ==
    IF frag = TrivialFrag THEN "UNIQUE (a, b)"
    ELSE "EXCLUDE (lower(c) WITH =, d WITH =)"

\* C17: for a TableWide Unique descriptor every fragment is rendered on its
\* own, by its is_trivial flag: a trivial fragment becomes UNIQUE over its
\* chunks joined by ', ', a non-trivial one becomes EXCLUDE over every chunk
\* paired with 'WITH ='; the i-th text belongs to the i-th fragment, so a
\* list that mixes both kinds yields a mixed list in the same order.
C17_UniqueRendering ==
    (op = "add" /\ ~old.delegated /\ old.scope = "table"
     /\ old.type = "unique" /\ ~err) =>
        LET items == block[1].items
        IN  /\ block[1].op = "add_constraint"
            /\ Len(items) = Len(old.frags)
            /\ \A i \in 1..Len(items) :
                  /\ items[i].arg = UniqueText(old.frags[i])
                  /\ old.frags[i].is_trivial <=>
                        (SubSeq(items[i].arg, 1, 6) = "UNIQUE")

C17_Witness ==
    /\ op = "add"
    /\ applied
    /\ ~old.delegated
    /\ old.scope = "table"
    /\ old.type = "unique"
    /\ Len(old.frags) = 2
    /\ old.frags[1] = ComplexFrag
    /\ old.frags[2] = TrivialFrag

\* C18: the Rename of a multi-constraint emits exactly one rename per
\* numbered piece, from the i-th numbered name of the old descriptor to the
\* i-th numbered name of the new one, so that after the renames the physical
\* constraint names are exactly the numbered names of the new descriptor and
\* no numbered name of the old descriptor remains.
C18_MultiRename ==
    (op = "rename" /\ ~old.delegated /\ is_multiconstraint(old) /\ ~err) =>
        LET rn == Only(block, {"rename_constraint"})
            k == Len(old.frags)
        IN  /\ Len(rn) = k
            /\ \A i \in 1..k :
                  rn[i].items =
                      << Item(NumberedName(old, i - 1),
                              NumberedName(new, i - 1), "") >>
            /\ applied =>
                  /\ Names(backend.constraints) =
                        {NumberedName(new, i - 1) : i \in 1..Len(new.frags)}
                  /\ Cardinality(backend.constraints) = k
                  /\ \A i \in 1..k :
                        NumberedName(old, i - 1) \notin
                            Names(backend.constraints)

C18_Witness ==
    /\ op = "rename"
    /\ applied
    /\ ~old.delegated
    /\ is_multiconstraint(old)
    /\ Len(old.frags) = MaxFrags
    /\ old.id = "a" /\ new.id = "b"
    /\ Cardinality(backend.constraints) = MaxFrags

RECURSIVE OrFrom(_, _)
\* " OR (old_i IS DISTINCT FROM new_i) ..." for the fragments from the i-th on.
OrFrom(frags, i) ==
    IF i > Len(frags) THEN ""
    ELSE " OR (" \o frags[i].old \o " IS DISTINCT FROM " \o frags[i].new
         \o ")" \o OrFrom(frags, i + 1)

\* The disjunction, over the fragments, of  old IS DISTINCT FROM new.
ChangedText(frags) ==
    IF Len(frags) = 1
    THEN frags[1].old \o " IS DISTINCT FROM " \o frags[1].new
    ELSE "(" \o frags[1].old \o " IS DISTINCT FROM " \o frags[1].new \o ")"
         \o OrFrom(frags, 2)

\* C19: the condition of the update trigger is the OR, over all fragments,
\* of  old IS DISTINCT FROM new ; it holds exactly when the value of at least
\* one fragment changed and is false when none changed.
C19_TriggerCondition ==
    (op = "add" /\ ~old.delegated /\ old.type # "check" /\ ~err) =>
        LET k == Len(old.frags)
            upd == StmtsOn(block, "create_trigger", UpdTriggerName(old))
            rows == [1..k -> FragVals]
        IN  /\ get_trigger_condition(old) = ChangedText(old.frags)
            /\ Len(upd) = 1
            /\ upd[1].items[1].extra =
                  "update WHEN (" \o ChangedText(old.frags) \o ")"
            /\ \A o \in rows, n \in rows :
                  trigger_condition_holds(old, o, n)
                      <=> (\E i \in 1..k : o[i] # n[i])
            /\ \A o \in rows : ~trigger_condition_holds(old, o, o)

C19_Witness ==
    /\ op = "add"
    /\ applied
    /\ ~old.delegated
    /\ old.type = "unique"
    /\ Len(old.frags) = MaxFrags
    /\ old.frags[1] # old.frags[2]
    /\ \E t \in backend.triggers : t.name = UpdTriggerName(old)


(* ------------------- claims on the history of a constraint ------------- *)

NoEntry == [op |-> "none", cur |-> NoDesc, backend |-> EmptyBackend]

\* The entry of the history for the transition applied before the live one.
LastBefore ==
    LET n == IF applied /\ ~rerun THEN Len(trail) - 1 ELSE Len(trail)
    IN  IF n >= 1 THEN trail[n] ELSE NoEntry

\* The live group renames the constraint back: the transition applied
\* before it renamed the id new.id to old.id.
RenamedBack ==
    /\ op = "rename"
    /\ old.id # new.id
    /\ LastBefore.op = "rename"
    /\ LastBefore.cur.id = new.id

\* C11: renaming a constraint (a multi-constraint in particular) from A to B
\* and then from B to A leaves the backend with exactly the physical
\* constraint names, the trigger names and the trigger-function name it had
\* before the first rename.
C11_RenameRoundTrip ==
    RenamedBack =>
        /\ applied
        /\ Names(backend.constraints) = Names(LastBefore.backend.constraints)
        /\ Names(backend.triggers) = Names(LastBefore.backend.triggers)
        /\ Names(backend.funcs) = Names(LastBefore.backend.funcs)
        /\ Cardinality(backend.constraints) =
              Cardinality(LastBefore.backend.constraints)
        /\ \A t \in backend.triggers : t.proc \in Names(backend.funcs)

C11_Witness ==
    /\ RenamedBack
    /\ applied
    /\ ~old.delegated
    /\ is_multiconstraint(old)
    /\ old.type = "unique"
    /\ Cardinality(backend.constraints) = Len(old.frags)
    /\ Cardinality(backend.triggers) = 2
    /\ Names(LastBefore.backend.constraints)
          # Names(trail[Len(trail)].backend.constraints)


(* --------------------------- claims on roles --------------------------- *)

\* C12: CreateRole guarded by RoleExists as a negative condition, applied
\* twice for the same role name, the condition being evaluated against the
\* live backend each time, executes exactly one CREATE ROLE statement: the
\* first application creates the role, the second one executes nothing and
\* leaves the set of roles as it was.
C12_GuardedCreateRoleOnce ==
    /\ \A n \in RoleNames :
          (rolehist[n].guarded >= 1 /\ rolehist[n].bare = 0) =>
              (rolehist[n].issued = 1 /\ n \in roles)
    /\ (rolecmd.c = "CreateRole" /\ rolecmd.guarded) =>
          /\ ~rolecmd.failed
          /\ rolecmd.name \in roles
          /\ rolecmd.name \in rolecmd.before =>
                (~rolecmd.executed /\ roles = rolecmd.before)
          /\ rolecmd.name \notin rolecmd.before =>
                (rolecmd.executed
                 /\ roles = rolecmd.before \cup {rolecmd.name})

C12_Witness ==
    /\ rolecmd.c = "CreateRole"
    /\ rolecmd.guarded
    /\ rolecmd.name = "alice"
    /\ ~rolecmd.executed
    /\ rolehist["alice"] = [guarded |-> 2, bare |-> 0, issued |-> 1]
    /\ roles = {"alice"}


(* --------------------- claims on repeated transitions ------------------ *)

\* The live group repeats the Create or the Drop applied just before it and
\* its caller paired it with the existence condition.
GuardedRerun == rerun /\ given # NoConditions

\* C13: running the same Create or Drop again, against a backend that
\* already reflects it, is a no-op and not an error: the command group
\* carries the conditions / neg_conditions of its caller, so that the second
\* application executes no ADD or DROP CONSTRAINT, trigger or function
\* statement and leaves the backend as the first application left it.
C13_RerunIsNoop ==
    /\ conds = given
    /\ GuardedRerun =>
          /\ applied
          /\ ~err
          /\ skipped \/ block = <<>>
          /\ backend = Execute(LastBefore.backend, block).backend
          /\ op = "add" => cur = old
          /\ op = "drop" => (cur = NoDesc /\ backend = EmptyBackend)

C13_Witness ==
    /\ GuardedRerun
    /\ op = "add"
    /\ skipped
    /\ ~old.delegated
    /\ old.type = "unique"
    /\ is_multiconstraint(old)
    /\ Len(block) > 4
    /\ Cardinality(backend.triggers) = 2

\* A repeated Drop that its conditions keep from executing.
C13_DropWitness ==
    /\ GuardedRerun
    /\ op = "drop"
    /\ skipped
    /\ ~old.delegated
    /\ old.type = "unique"
    /\ Len(block) = 4
    /\ backend = EmptyBackend

\* Without the conditions of the caller the repeated transition of a
\* non-delegated descriptor is rejected by the backend.
BareRerunFails ==
    (rerun /\ given = NoConditions /\ ~old.delegated) => ~applied


(* ---------------- claims on two constraints side by side --------------- *)

\* The names a block touches: the objects its statements name and the names
\* its renames and trigger bindings refer to.
TouchedNames(blk) ==
    UNION {{blk[i].items[j].name : j \in 1..Len(blk[i].items)}
              : i \in 1..Len(blk)}
    \cup {blk[i].items[1].arg :
             i \in {k \in 1..Len(blk) : blk[k].op = "create_trigger"}}

\* The statements a group has executed.
Executed(g) == SubSeq(g.block, 1, g.pc - 1)

\* The backend the two groups started on.
PairStart ==
    IF groups[1].kind = "add" THEN EmptyBackend
    ELSE Execute(EmptyBackend,
                 CreateSequence(groups[1].d)
                 \o CreateSequence(groups[2].d)).backend

\* C14: two constraints with distinct ids on the same table touch disjoint
\* physical names (base name, numbered names, insert and update trigger
\* names, trigger-function name), so that their Create groups, and their
\* Drop groups, executed in either order or interleaved, each in its own
\* order, never fail and give the same backend state.
C14_DistinctIdsCommute ==
    groups # <<>> =>
        LET g1 == groups[1]
            g2 == groups[2]
        IN  /\ TouchedNames(g1.block) \cap TouchedNames(g2.block) = {}
            /\ Range(PhysicalNames(g1.d)) \cap Range(PhysicalNames(g2.d)) = {}
            /\ {InsTriggerName(g1.d), UpdTriggerName(g1.d), ProcName(g1.d)}
                  \cap {InsTriggerName(g2.d), UpdTriggerName(g2.d),
                        ProcName(g2.d)} = {}
            /\ ~g1.failed /\ ~g2.failed
            /\ backend =
                  Execute(PairStart, Executed(g1) \o Executed(g2)).backend
            /\ backend =
                  Execute(PairStart, Executed(g2) \o Executed(g1)).backend
            /\ (Finished(g1) /\ Finished(g2) /\ g1.kind = "drop") =>
                  backend = EmptyBackend

C14_Witness ==
    /\ groups # <<>>
    /\ groups[1].kind = "add"
    /\ Finished(groups[1]) /\ Finished(groups[2])
    /\ groups[1].d.type = "unique" /\ groups[2].d.type = "unique"
    /\ is_multiconstraint(groups[1].d)
    /\ Cardinality(backend.triggers) = 4
    /\ Cardinality(backend.funcs) = 2

\* Both Drop groups have run to their end.
C14_DropWitness ==
    /\ groups # <<>>
    /\ groups[1].kind = "drop"
    /\ Finished(groups[1]) /\ Finished(groups[2])
    /\ groups[1].d.type = "unique" /\ groups[2].d.type = "unique"
    /\ backend = EmptyBackend


(* ----------------------- claims on Create and Drop --------------------- *)

\* The names of all the objects of a backend.
AllNames(b) ==
    Names(b.constraints) \cup Names(b.triggers) \cup Names(b.funcs)

\* The live group drops the descriptor that the transition applied before
\* it created.
DropAfterCreate ==
    /\ op = "drop"
    /\ ~rerun
    /\ ~old.delegated
    /\ LastBefore.op = "add"

\* C20: a Create followed by the Drop of the same non-delegated descriptor
\* returns the backend to its state before the Create: the Drop is applied
\* and the names it removes are exactly the names the Create added, for
\* every scope and kind that renders and every fragment count.
C20_CreateDropRoundTrip ==
    DropAfterCreate =>
        /\ applied
        /\ backend = LastBefore.backend
        /\ LET before == LastBefore.backend
               between == trail[Len(trail)].backend
               added == AllNames(between) \ AllNames(before)
               removed == AllNames(between) \ AllNames(backend)
           IN  /\ removed = added
               /\ TouchedNames(block) = added
               /\ added =
                     Range(PhysicalNames(old))
                     \cup (IF old.type = "check" THEN {}
                           ELSE {InsTriggerName(old), UpdTriggerName(old),
                                 ProcName(old)})

C20_Witness ==
    /\ DropAfterCreate
    /\ applied
    /\ old.scope = "table"
    /\ old.type = "unique"
    /\ Len(old.frags) = MaxFrags
    /\ Cardinality(AllNames(trail[Len(trail)].backend)) = MaxFrags + 3
    /\ backend = EmptyBackend

\* A Row-scope Check descriptor created and dropped.
C20_CheckWitness ==
    /\ DropAfterCreate
    /\ applied
    /\ old.scope = "row"
    /\ old.type = "check"
    /\ Cardinality(AllNames(trail[Len(trail)].backend)) = 1


(* ------------------ claims on Rename to any descriptor ----------------- *)

\* The backend that the Create of descriptor d yields on an empty backend.
Created(d) == Execute(EmptyBackend, CreateSequence(d)).backend

\* The physical names of a backend by class: constraints, triggers and
\* trigger functions.
NamesOf(b) ==
    [constraints |-> Names(b.constraints),
     triggers |-> Names(b.triggers),
     funcs |-> Names(b.funcs)]

\* The live group renames, between non-delegated descriptors, the
\* constraint that the transition applied before it created.
RenameAfterCreate ==
    /\ op = "rename"
    /\ applied
    /\ ~old.delegated
    /\ ~new.delegated
    /\ LastBefore.op = "add"
    /\ LastBefore.backend = EmptyBackend

\* The live group drops the descriptor that the transition applied before
\* it renamed a created non-delegated descriptor to.
DropAfterRename ==
    /\ op = "drop"
    /\ ~rerun
    /\ ~old.delegated
    /\ LastBefore.op = "rename"
    /\ ~LastBefore.cur.delegated

\* Two descriptors have the same physical layout: both or neither natively
\* inherited, and the same number of physical constraints.
SameLayout(o, n) ==
    /\ is_natively_inherited(o) = is_natively_inherited(n)
    /\ Len(PhysicalNames(o)) = Len(PhysicalNames(n))

\* C21: after Create(old) followed by Rename(old -> new) of non-delegated
\* descriptors the physical names of the backend (constraints, both
\* triggers, trigger function) are those Create(new) produces on an empty
\* backend, and a following Drop(new) is applied and leaves the backend
\* empty, for every pair of descriptors, pairs that differ in fragment count
\* or kind included.
C21_RenameAsCreated ==
    /\ RenameAfterCreate => NamesOf(backend) = NamesOf(Created(new))
    /\ DropAfterRename => (applied /\ backend = EmptyBackend)

\* The part of C21 that the code keeps: for pairs of the same physical
\* layout the names after the Rename are those of Create(new), and the
\* following Drop(new) empties the backend.
C21_SameLayoutRename ==
    /\ (RenameAfterCreate /\ SameLayout(old, new)) =>
           NamesOf(backend) = NamesOf(Created(new))
    /\ (DropAfterRename /\ SameLayout(LastBefore.cur, old)) =>
           (applied /\ backend = EmptyBackend)

\* A Rename was applied between descriptors of different layouts.
C21_ReshapedWitness ==
    RenameAfterCreate /\ ~SameLayout(old, new)

\* A Rename between descriptors of the same layout that differ in kind and
\* in scope was applied, and the Drop that follows it.
C21_SameLayoutWitness ==
    /\ DropAfterRename
    /\ applied
    /\ SameLayout(LastBefore.cur, old)
    /\ LastBefore.cur.type # old.type
    /\ LastBefore.cur.scope # old.scope


(* --------------------------- claims on Alter --------------------------- *)

\* The backend the live group found: the one before it was applied.
Found == IF applied /\ ~rerun THEN trail[Len(trail)].backend ELSE backend

\* The live group alters, between non-delegated descriptors, a constraint
\* whose backend is the one that Create(old) produces on an empty backend.
AlterAfterCreate ==
    /\ op = "alter"
    /\ ~old.delegated
    /\ ~new.delegated
    /\ Found = Created(old)

\* C22: after Create(old) followed by Alter(old, new) with both descriptors
\* non-delegated, the Alter to a descriptor that renders is applied and the
\* backend holds exactly the objects that Create(new) produces on an empty
\* backend, also when old and new differ in kind, scope or fragment count:
\* every object of the new descriptor exists, and no trigger, function or
\* constraint name of the old descriptor survives unless the new descriptor
\* has it too.
C22_AlterAsCreated ==
    AlterAfterCreate =>
        /\ ~constraint_code_raises(new) => applied
        /\ applied =>
              /\ backend = Created(new)
              /\ AllNames(Created(new)) \subseteq AllNames(backend)
              /\ (AllNames(Found) \ AllNames(Created(new)))
                     \cap AllNames(backend) = {}

\* An Alter from a Unique row constraint to a Check table-wide constraint
\* with another fragment count was applied, and triggers, the function and
\* the constraint name of the old descriptor were removed.
C22_Witness ==
    /\ AlterAfterCreate
    /\ applied
    /\ old.type = "unique"
    /\ new.type = "check"
    /\ old.scope # new.scope
    /\ Len(old.frags) # Len(new.frags)
    /\ Found.triggers # {}
    /\ backend.triggers = {}
    /\ backend.funcs = {}

\* An Alter from a Check constraint to a Unique multi-constraint was
\* applied: numbered constraints, triggers and function were created.
C22_UniqueWitness ==
    /\ AlterAfterCreate
    /\ applied
    /\ old.type = "check"
    /\ new.type = "unique"
    /\ IsMulti(new)
    /\ ~IsMulti(old)
    /\ Cardinality(backend.constraints) = Len(new.frags)
    /\ Cardinality(backend.triggers) = 2


(* ---------------------- claims on repeated generate -------------------- *)

\* The commands of class c among cmds, in order.
CommandsOf(cmds, c) == SelectSeq(cmds, LAMBDA x : x.c = c)

\* C23: generating the same lifecycle command object (Add, Rename, Alter or
\* Drop inheritable-constraint group, or the rename multi-constraint group
\* inside a Rename) more than once yields the same command sequence each
\* time: the group does not accumulate commands, its rename
\* multi-constraint group does not accumulate renames, and a later
\* generation emits the statements of the first and no more.
C23_GenerateRepeats ==
    passes > 1 =>
        /\ block = first
        /\ Len(block) <= Len(first)
        /\ Len(commands) = Len(Adds(op, old, new))
        /\ \A i \in 1..Len(commands) :
              commands[i].c = "AlterTableRenameMultiConstraint" =>
                  Len(commands[i].sub) =
                      Len(RenameMultiConstraint_commands(old, new))

\* What the code does: each generate() adds the commands of the group once
\* more, so that after k calls that did not raise the group holds k copies
\* and the k-th block holds k times the statements of the first; the rename
\* multi-constraint group added by the first call holds k copies of its
\* renames.
C23_GenerateAccumulates ==
    (passes >= 1 /\ ~err) =>
        /\ Len(commands) = passes * Len(Adds(op, old, new))
        /\ Len(block) >= passes * Len(first)
        /\ \A c \in {"AlterTableRenameMultiConstraint"} :
              CommandsOf(commands, c) # <<>> =>
                  Len(CommandsOf(commands, c)[1].sub) =
                      passes * Len(RenameMultiConstraint_commands(old, new))

\* An Add group of a non-delegated descriptor was generated twice and its
\* second block holds the ADD CONSTRAINT statement twice.
C23_Witness ==
    /\ op = "add"
    /\ passes = 2
    /\ ~old.delegated
    /\ ~err
    /\ Len(Only(block, {"add_constraint"})) = 2
    /\ Len(Only(first, {"add_constraint"})) = 1

=============================================================================
